---- MODULE Spec2Model ----
(***************************************************************************)
(* Two UI controllers of material-react-table, as state machines:          *)
(*                                                                         *)
(*   - MRT_FilterTextField: the column filter input (local echo, 200ms     *)
(*     trailing debounce into the shared column filter state, clear        *)
(*     button, predicate chip);                                            *)
(*   - MRT_ToggleRowActionMenuButton: the per-row action cell (which of    *)
(*     custom renderer / edit buttons / edit icon / overflow menu is       *)
(*     rendered, and the edit-start and open-menu handlers).               *)
(*                                                                         *)
(* JavaScript values are modelled by strings; UNDEFINED stands for the     *)
(* value undefined, "" for the empty string.                               *)
(***************************************************************************)
EXTENDS Integers, Sequences, FiniteSets, TLC

VARIABLES
    cfg,               \* the options and columnDef the filter input was built with
    columnFilters,     \* shared: column id -> filter value (table state)
    currentFilterFns,  \* shared: column id -> predicate selection
    filterValue,       \* per input: the local (displayed) value, useState
    filterAnchorEl,    \* per input: anchor of the predicate menu, useState
    mounted,           \* per input: the component is mounted
    timeout,           \* per input: the debounce timer and its captured event
    burst,             \* per input: history of the current burst of onInput calls
    last,              \* the handler that ran in the last step
    rowCfg,            \* the table options the row action cells were built with
    creatingRow,       \* shared: id of the creating row, or NoRow
    editingRow,        \* shared: id of the editing row, or NoRow
    rowAnchorEl,       \* per row: anchor of the row action menu, useState
    rowLast            \* the row handler that ran in the last step

filterVars == <<cfg, columnFilters, currentFilterFns, filterValue, filterAnchorEl,
                mounted, timeout, burst, last>>
rowVars == <<rowCfg, creatingRow, editingRow, rowAnchorEl, rowLast>>
vars == <<filterVars, rowVars>>

----------------------------------------------------------------------------
(* Values *)

UNDEFINED == "undefined"

\* The non-empty strings a user types or selects.
Values == {"a", "b"}

InputValues == Values \cup {""}

\* The values followed in input i: both in a single input; in a min/max
\* pair one value of its own for each side, and the empty string.
ValuesOf(i) ==
    CASE i = 0 -> {"", "a"}
      [] i = 1 -> {"", "b"}
      [] OTHER -> InputValues

\* inputIndex?: number -- NoIndex stands for an omitted inputIndex.
NoIndex == -1

\* The column whose filter input is mounted, and another column of the table.
Column == "age"

OtherColumn == "name"

Columns == {Column, OtherColumn}

\* A column filter value: undefined, a string, or a [min, max] tuple whose
\* elements are strings or undefined.
Undefined == [isTuple |-> FALSE, s |-> UNDEFINED, t |-> <<>>]

Str(v) == [isTuple |-> FALSE, s |-> v, t |-> <<>>]

Tuple(x, y) == [isTuple |-> TRUE, s |-> UNDEFINED, t |-> <<x, y>>]

TupleElems == InputValues \cup {UNDEFINED}

FilterValues ==
    {Undefined} \cup {Str(v) : v \in InputValues}
        \cup {Tuple(x, y) : x \in TupleElems, y \in TupleElems}

\* The `??` operator on strings.
Coalesce(x, d) == IF x = UNDEFINED THEN d ELSE x

\* Truthiness of a string, and of an inputIndex (`!inputIndex`).
Truthy(x) == x # UNDEFINED /\ x # ""

NotInputIndex(i) == i = NoIndex \/ i = 0

----------------------------------------------------------------------------
(* Configuration of the filter input: options and columnDef *)

\* debounce(..., 200)
DebounceMs == 200

\* Time advances in steps of half the debounce delay.
TickMs == DebounceMs \div 2

\* A burst of onInput calls on one input is followed up to this length.
MaxBurst == 2

\* Predicate names (MRT_FilterOption), and a predicate given as a function.
Predicates == {"fuzzy", "empty", "notEmpty"}

CustomFn == "customFn"

IsFunction(f) == f = CustomFn

CallbackNames ==
    {"onColumnFilterValueChanged", "columnDef.onColumnFilterValueChanged",
     "onColumnFilterValueChangedDebounced",
     "columnDef.onColumnFilterValueChangedDebounced"}

LocalizationKeys ==
    {"filterMode", "filterFuzzy", "filterEmpty", "filterNotEmpty", "filterCustomFn"}

\* An optional list of enabled predicates (enabledColumnFilterOptions).
NoOptions == [defined |-> FALSE, options |-> {}]

Options(S) == [defined |-> TRUE, options |-> S]

\* The inputs the header renders: one, or a min/max pair.
Inputs == IF cfg.isRange THEN {0, 1} ELSE {NoIndex}

AllInputs == {NoIndex, 0, 1}

\* `filter${filterFn.charAt(0).toUpperCase() + filterFn.slice(1)}`
\* (a function's name in place of filterFn for a predicate function).
LocalizationKey(f) ==
    CASE f = "fuzzy" -> "filterFuzzy"
      [] f = "empty" -> "filterEmpty"
      [] f = "notEmpty" -> "filterNotEmpty"
      [] f = CustomFn -> "filterCustomFn"
      [] OTHER -> UNDEFINED

\* localization[key]: the localized string (the key stands for its text), or
\* undefined when the table's localization lacks it.
Localization(key) == IF key \in cfg.localization THEN key ELSE UNDEFINED

----------------------------------------------------------------------------
(* What the filter input renders *)

\* const filterFn = currentFilterFns?.[header.id]
FilterFn == currentFilterFns[Column]

IsSelectFilter == cfg.filterSelectOptions

FilterChipLabel ==
    IF ~IsFunction(FilterFn) /\ FilterFn \in {"empty", "notEmpty"}
    THEN Localization(LocalizationKey(FilterFn))
    ELSE ""

AllowedColumnFilterOptions ==
    IF cfg.columnOptions.defined THEN cfg.columnOptions ELSE cfg.tableOptions

HasFilterOptions ==
    \/ ~AllowedColumnFilterOptions.defined
    \/ Cardinality(AllowedColumnFilterOptions.options) > 0

\* inputProps.disabled
InputDisabled == Truthy(FilterChipLabel)

\* InputProps.startAdornment: the predicate menu button (and the chip).
StartAdornment(i) == ~IsSelectFilter /\ NotInputIndex(i) /\ HasFilterOptions

\* Mutant of ChipShown: the chip is rendered on every input, outside the
\* start adornment.
ChipShownOnEveryInput(i) == Truthy(FilterChipLabel)

\* The removable <Chip> inside the start adornment.
ChipShown(i) == StartAdornment(i) /\ Truthy(FilterChipLabel)

\* InputProps.endAdornment: the clear button.
EndAdornment == ~Truthy(FilterChipLabel)

\* disabled={!filterValue?.length} of the clear button.
ClearDisabled(i) == ~Truthy(filterValue[i])

\* helperText: evaluating it dereferences localization.filterMode and, for a
\* predicate that is no function, filterFn.charAt.
HelperText(i) == NotInputIndex(i) /\ HasFilterOptions

RenderThrows(i) ==
    /\ ~cfg.Filter
    /\ HelperText(i)
    /\ \/ Localization("filterMode") = UNDEFINED
       \/ ~IsFunction(FilterFn) /\ FilterFn = UNDEFINED

\* Mutant of Interactive: the handlers are bound although columnDef.Filter
\* replaces the input.
InteractiveDespiteFilter(i) ==
    /\ i \in Inputs
    /\ mounted[i]
    /\ \A j \in Inputs : ~RenderThrows(j)

\* The input is on screen and bound to this component's handlers:
\* mounted, not replaced by columnDef.Filter, and no render of the header threw.
Interactive(i) ==
    /\ i \in Inputs
    /\ mounted[i]
    /\ ~cfg.Filter
    /\ \A j \in Inputs : ~RenderThrows(j)

----------------------------------------------------------------------------
(* State of the filter input *)

\* The ChangeEvent of an onInput call: n numbers the calls of a burst, value
\* is the value the input held when the event was dispatched.
NoEvent == [n |-> 0, value |-> UNDEFINED]

\* The argument of a notification callback: {column, event, filterValue}.
Payload(ev, v) == [column |-> Column, event |-> ev, filterValue |-> v]

\* The timer of debounce(): whether a call is pending, the time left, and the
\* arguments of the last call.
NoTimeout == [pending |-> FALSE, remaining |-> 0, event |-> NoEvent]

\* History of the current burst of onInput calls of an input (the calls
\* since the call that found no timer pending): the calls made, the value of
\* the last call, the time since it (up to DebounceMs), whether a clear ran
\* on the input while the call was pending, the writes the debounced callback
\* made, and how often each callback was called.
NoBurst ==
    [calls |-> 0, value |-> UNDEFINED, idle |-> 0, cleared |-> FALSE, writes |-> 0,
     count |-> [c \in CallbackNames |-> 0]]

\* A clear button or chip handler ran on the input of burst history b.
Cleared(b, pending) == IF pending THEN [b EXCEPT !.cleared = TRUE] ELSE b

\* column.getFilterValue()
GetFilterValue == columnFilters[Column]

\* useState initializer of filterValue:
\*   inputIndex !== undefined ? getFilterValue()?.[inputIndex] ?? ''
\*                            : getFilterValue() ?? ''
InitialFilterValue(fv, i) ==
    IF i # NoIndex
    THEN IF fv.isTuple THEN Coalesce(fv.t[i + 1], "") ELSE ""
    ELSE Coalesce(fv.s, "")

\* The shared filter value as an input at index i would read it.
SharedAt(i) == InitialFilterValue(GetFilterValue, i)

\* optionalCallback?.(payload): the call is made when the callback is given.
\* Counted in the burst history b ...
Notify(b, name) ==
    IF name \in cfg.callbacks THEN [b EXCEPT !.count[name] = @ + 1] ELSE b

\* ... and recorded, with its argument, in the calls a handler made.
Called(calls, name, p) ==
    IF name \in cfg.callbacks
    THEN Append(calls, [callback |-> name, payload |-> p])
    ELSE calls

\* Mutant of RangeUpdater: the updater starts from an empty tuple instead of
\* the previous value.
RangeUpdaterFromEmpty(old, i, v) == [Tuple("", "") EXCEPT !.t[i + 1] = v]

\* The updater of the debounced range write:
\*   old => { const n = old ?? ['', '']; n[inputIndex] = value; return n }
RangeUpdater(old, i, v) ==
    LET n == IF old = Undefined THEN Tuple("", "") ELSE old
    IN  IF n.isTuple THEN [n EXCEPT !.t[i + 1] = v] ELSE n

\* event.target.value read when the timer fires. The target of a text
\* input's event is the input element, whose value is by then the value the
\* component last rendered; a select passes an event whose target is an
\* object holding the selected value.
EventTargetValue(i, ev) == IF IsSelectFilter THEN ev.value ELSE filterValue[i]

----------------------------------------------------------------------------
(* Configurations and the initial state *)

\* A plain text filter input with every callback given.
DefaultConfig ==
    [isRange |-> FALSE, filterSelectOptions |-> FALSE, Filter |-> FALSE,
     columnOptions |-> NoOptions, tableOptions |-> NoOptions,
     callbacks |-> CallbackNames, localization |-> LocalizationKeys]

\* The configurations followed. A single input: text or select, with each
\* kind of predicate list, every callback given; also with no callback, with
\* a localization that lacks the label of "empty" or the text of the helper
\* line, and with a custom Filter component. A min/max pair of text inputs:
\* with an empty and with a non-empty predicate list.
Configs ==
    {[DefaultConfig EXCEPT !.filterSelectOptions = s, !.columnOptions = o] :
        s \in BOOLEAN, o \in {NoOptions, Options({}), Options({"fuzzy", "empty"})}}
    \cup {[DefaultConfig EXCEPT !.isRange = TRUE, !.columnOptions = o] :
        o \in {Options({}), Options({"fuzzy", "empty"})}}
    \cup {[DefaultConfig EXCEPT !.callbacks = {}]}
    \cup {[DefaultConfig EXCEPT !.localization = LocalizationKeys \ {k}] :
            k \in {"filterEmpty", "filterMode"}}
    \cup {[DefaultConfig EXCEPT !.Filter = TRUE]}

\* The predicate selection the table starts with (initialState); it may
\* have no entry for the column.
InitFilterFns == {"fuzzy", "empty", UNDEFINED}

InitFilterValues(isRange) ==
    IF isRange THEN {Undefined, Tuple("a", "b")} ELSE {Undefined, Str("a")}

FilterInit(configs) ==
    /\ cfg \in configs
    /\ \E fv \in InitFilterValues(cfg.isRange) :
         /\ columnFilters = [c \in Columns |-> IF c = Column THEN fv ELSE Str("b")]
         /\ filterValue = [i \in Inputs |-> InitialFilterValue(fv, i)]
    /\ \E f \in InitFilterFns :
         currentFilterFns = [c \in Columns |-> IF c = Column THEN f ELSE "notEmpty"]
    /\ filterAnchorEl = [i \in Inputs |-> FALSE]
    /\ mounted = [i \in Inputs |-> TRUE]
    /\ timeout = [i \in Inputs |-> NoTimeout]
    /\ burst = [i \in Inputs |-> NoBurst]
    /\ last = [op |-> "init", inputIndex |-> NoIndex, notified |-> <<>>]

----------------------------------------------------------------------------
(* Handlers of the filter input *)

\* The last step: the handler, its input, and the callbacks it called.
Did(op, i, calls) == [op |-> op, inputIndex |-> i, notified |-> calls]

\* Mutant of Debounce: a call that finds the timer pending restarts it and
\* keeps the arguments of the first call.
DebounceKeepsFirstArgs(t, ev) ==
    IF t.pending
    THEN [t EXCEPT !.remaining = DebounceMs]
    ELSE [pending |-> TRUE, remaining |-> DebounceMs, event |-> ev]

\* Mutant of Debounce: a call that finds the timer pending replaces the
\* arguments and leaves the timer running (no clearTimeout).
DebounceWithoutReset(t, ev) ==
    IF t.pending
    THEN [t EXCEPT !.event = ev]
    ELSE [pending |-> TRUE, remaining |-> DebounceMs, event |-> ev]

\* debounced(...args): clearTimeout(timeout); timeout = setTimeout(later, wait)
Debounce(t, ev) == [pending |-> TRUE, remaining |-> DebounceMs, event |-> ev]

\* Mutant of DebouncedFilterValue: the tuple is built from this input's own
\* state, not by an updater from the value current when the write applies.
DebouncedFilterValueOwnSide(old, i, v) ==
    IF i # NoIndex THEN [Tuple("", "") EXCEPT !.t[i + 1] = v] ELSE Str(v)

\* What the debounced callback writes with column.setFilterValue.
DebouncedFilterValue(old, i, v) ==
    IF i # NoIndex THEN RangeUpdater(old, i, v) ELSE Str(v)

\* Mutant of ClearedFilterValue: the clear writes the empty string where the
\* handler writes undefined.
ClearedFilterValueToEmpty(old, i) ==
    IF i # NoIndex
    THEN LET n == IF old = Undefined THEN Tuple("", "") ELSE old
         IN  IF n.isTuple THEN [n EXCEPT !.t[i + 1] = ""] ELSE n
    ELSE Str("")

\* What handleClear writes with column.setFilterValue.
ClearedFilterValue(old, i) ==
    IF i # NoIndex
    THEN LET n == IF old = Undefined THEN Tuple("", "") ELSE old
         IN  IF n.isTuple THEN [n EXCEPT !.t[i + 1] = UNDEFINED] ELSE n
    ELSE Undefined

\* Mutant of ResetFilterFn: the new map is built without spreading prev.
ResetFilterFnWithoutPrev(prev) ==
    [c \in Columns |-> IF c = Column THEN "fuzzy" ELSE UNDEFINED]

\* Mutant of ResetFilterFn: the predicate selection is left as it is.
ResetFilterFnKept(prev) == prev

\* setCurrentFilterFns(prev => ({ ...prev, [header.id]: 'fuzzy' }))
ResetFilterFn(prev) == [prev EXCEPT ![Column] = "fuzzy"]

\* onChange={handleChange}: the user types or selects v in input i.
HandleChange(i, v) ==
    /\ Interactive(i)
    /\ ~InputDisabled
    /\ v # filterValue[i]
    /\ timeout[i].pending => burst[i].calls < MaxBurst
    /\ LET b0 == IF timeout[i].pending THEN burst[i] ELSE NoBurst
           ev == [n |-> b0.calls + 1, value |-> v]
           b1 == [b0 EXCEPT !.calls = @ + 1, !.value = v, !.idle = 0,
                            !.cleared = FALSE]
           b2 == Notify(b1, "onColumnFilterValueChanged")
           b3 == Notify(b2, "columnDef.onColumnFilterValueChanged")
           c1 == Called(<<>>, "onColumnFilterValueChanged", Payload(ev, v))
           c2 == Called(c1, "columnDef.onColumnFilterValueChanged", Payload(ev, v))
       IN  /\ filterValue' = [filterValue EXCEPT ![i] = v]
           /\ timeout' = [timeout EXCEPT ![i] = Debounce(@, ev)]
           /\ burst' = [burst EXCEPT ![i] = b3]
           /\ last' = Did("handleChange", i, c2)
    /\ UNCHANGED rowVars
    /\ UNCHANGED <<cfg, columnFilters, currentFilterFns, filterAnchorEl, mounted>>

\* The timer of input i fires: the callback given to debounce() runs. Nothing
\* clears the timer when the component unmounts.
HandleChangeDebounced(i) ==
    /\ i \in Inputs
    /\ timeout[i].pending
    /\ timeout[i].remaining = 0
    /\ LET ev == timeout[i].event
           v == EventTargetValue(i, ev)
           b1 == [burst[i] EXCEPT !.writes = @ + 1]
           b2 == Notify(b1, "onColumnFilterValueChangedDebounced")
           b3 == Notify(b2, "columnDef.onColumnFilterValueChangedDebounced")
           c1 == Called(<<>>, "onColumnFilterValueChangedDebounced", Payload(ev, v))
           c2 == Called(c1, "columnDef.onColumnFilterValueChangedDebounced",
                        Payload(ev, v))
       IN  /\ columnFilters' =
                [columnFilters EXCEPT ![Column] = DebouncedFilterValue(@, i, v)]
           /\ burst' = [burst EXCEPT ![i] = b3]
           /\ last' = Did("handleChangeDebounced", i, c2)
    /\ timeout' = [timeout EXCEPT ![i] = NoTimeout]
    /\ UNCHANGED rowVars
    /\ UNCHANGED <<cfg, currentFilterFns, filterValue, filterAnchorEl, mounted>>

\* onClick={handleClear} of the clear button.
HandleClear(i) ==
    /\ Interactive(i)
    /\ EndAdornment
    /\ ~ClearDisabled(i)
    /\ filterValue' = [filterValue EXCEPT ![i] = ""]
    /\ columnFilters' = [columnFilters EXCEPT ![Column] = ClearedFilterValue(@, i)]
    /\ burst' = [burst EXCEPT ![i] = Cleared(@, timeout[i].pending)]
    /\ last' = Did("handleClear", i, <<>>)
    /\ UNCHANGED rowVars
    /\ UNCHANGED <<cfg, currentFilterFns, filterAnchorEl, mounted, timeout>>

\* onDelete={handleClearFilterChip} of the predicate chip.
HandleClearFilterChip(i) ==
    /\ Interactive(i)
    /\ ChipShown(i)
    /\ filterValue' = [filterValue EXCEPT ![i] = ""]
    /\ columnFilters' = [columnFilters EXCEPT ![Column] = Undefined]
    /\ currentFilterFns' = ResetFilterFn(currentFilterFns)
    /\ burst' = [burst EXCEPT ![i] = Cleared(@, timeout[i].pending)]
    /\ last' = Did("handleClearFilterChip", i, <<>>)
    /\ UNCHANGED rowVars
    /\ UNCHANGED <<cfg, filterAnchorEl, mounted, timeout>>

\* onClick={handleFilterMenuOpen} of the predicate menu button.
HandleFilterMenuOpen(i) ==
    /\ Interactive(i)
    /\ StartAdornment(i)
    /\ ~filterAnchorEl[i]
    /\ filterAnchorEl' = [filterAnchorEl EXCEPT ![i] = TRUE]
    /\ last' = Did("handleFilterMenuOpen", i, <<>>)
    /\ UNCHANGED rowVars
    /\ UNCHANGED <<cfg, columnFilters, currentFilterFns, filterValue, mounted,
                   timeout, burst>>

\* The predicates MRT_FilterOptionMenu offers.
FilterOptions ==
    IF AllowedColumnFilterOptions.defined
    THEN AllowedColumnFilterOptions.options
    ELSE Predicates

\* MRT_FilterOptionMenu: choosing predicate f writes it into the predicate
\* selection of the column and closes the menu.
SelectFilterMode(i, f) ==
    /\ Interactive(i)
    /\ filterAnchorEl[i]
    /\ f \in FilterOptions
    /\ currentFilterFns' = [currentFilterFns EXCEPT ![Column] = f]
    /\ filterAnchorEl' = [filterAnchorEl EXCEPT ![i] = FALSE]
    /\ last' = Did("none", NoIndex, <<>>)
    /\ UNCHANGED rowVars
    /\ UNCHANGED <<cfg, columnFilters, filterValue, mounted, timeout, burst>>

\* MRT_FilterOptionMenu: the menu is closed without a choice.
CloseFilterMenu(i) ==
    /\ Interactive(i)
    /\ filterAnchorEl[i]
    /\ filterAnchorEl' = [filterAnchorEl EXCEPT ![i] = FALSE]
    /\ last' = Did("none", NoIndex, <<>>)
    /\ UNCHANGED rowVars
    /\ UNCHANGED <<cfg, columnFilters, currentFilterFns, filterValue, mounted,
                   timeout, burst>>

\* The component of input i unmounts. It registers no cleanup: its state is
\* gone and its handlers are unbound, and a pending timer stays scheduled.
Unmount(i) ==
    /\ i \in Inputs
    /\ mounted[i]
    /\ mounted' = [mounted EXCEPT ![i] = FALSE]
    /\ filterAnchorEl' = [filterAnchorEl EXCEPT ![i] = FALSE]
    /\ last' = Did("none", NoIndex, <<>>)
    /\ UNCHANGED rowVars
    /\ UNCHANGED <<cfg, columnFilters, currentFilterFns, filterValue, timeout, burst>>

Max(a, b) == IF a >= b THEN a ELSE b

Min(a, b) == IF a <= b THEN a ELSE b

\* TickMs pass. A timer that is due fires before more time passes.
Tick ==
    /\ \E i \in Inputs : timeout[i].pending
    /\ \A i \in Inputs : timeout[i].pending => timeout[i].remaining > 0
    /\ timeout' =
         [i \in Inputs |->
            IF timeout[i].pending
            THEN [timeout[i] EXCEPT !.remaining = Max(0, @ - TickMs)]
            ELSE timeout[i]]
    /\ burst' =
         [i \in Inputs |->
            IF timeout[i].pending
            THEN [burst[i] EXCEPT !.idle = Min(DebounceMs, @ + TickMs)]
            ELSE burst[i]]
    /\ last' = Did("none", NoIndex, <<>>)
    /\ UNCHANGED rowVars
    /\ UNCHANGED <<cfg, columnFilters, currentFilterFns, filterValue, filterAnchorEl,
                   mounted>>

FilterNext ==
    \/ \E i \in AllInputs : \E v \in ValuesOf(i) : HandleChange(i, v)
    \/ \E i \in AllInputs : HandleChangeDebounced(i)
    \/ \E i \in AllInputs : HandleClear(i)
    \/ \E i \in AllInputs : HandleClearFilterChip(i)
    \/ \E i \in AllInputs : HandleFilterMenuOpen(i)
    \/ \E i \in AllInputs, f \in Predicates : SelectFilterMode(i, f)
    \/ \E i \in AllInputs : CloseFilterMenu(i)
    \/ \E i \in AllInputs : Unmount(i)
    \/ Tick

----------------------------------------------------------------------------
(* The row action cell: MRT_ToggleRowActionMenuButton *)

Rows == {"r1", "r2"}

NoRow == "none"

CreateDisplayModes == {"modal", "row", "custom"}

EditDisplayModes == {"modal", "row", "cell", "table", "custom"}

\* enableEditing is a boolean or a function of the row: the set of rows it
\* yields true for.
RowConfigs ==
    [createDisplayMode : CreateDisplayModes,
     editDisplayMode : EditDisplayModes,
     enableEditing : {{}, {"r1"}, Rows},
     renderRowActionMenuItems : BOOLEAN,
     renderRowActions : BOOLEAN]

\* parseFromValuesOrFunc(enableEditing, row)
EnableEditing(r) == r \in rowCfg.enableEditing

IsCreating(r) == creatingRow # NoRow /\ creatingRow = r

IsEditing(r) == editingRow # NoRow /\ editingRow = r

\* Mutant of ShowEditActionButtons: only the editing row counts.
ShowEditActionButtonsEditingOnly(r) ==
    IsEditing(r) /\ rowCfg.editDisplayMode = "row"

ShowEditActionButtons(r) ==
    \/ IsCreating(r) /\ rowCfg.createDisplayMode = "row"
    \/ IsEditing(r) /\ rowCfg.editDisplayMode = "row"

\* Mutant of RowActions: the custom renderer wins whenever it is configured.
RowActionsCustomFirst(r) ==
    IF rowCfg.renderRowActions
    THEN "renderRowActions"
    ELSE IF ShowEditActionButtons(r)
    THEN "MRT_EditActionButtons"
    ELSE IF /\ ~rowCfg.renderRowActionMenuItems
            /\ EnableEditing(r)
            /\ rowCfg.editDisplayMode \in {"modal", "row"}
    THEN "EditIcon"
    ELSE IF rowCfg.renderRowActionMenuItems
    THEN "MRT_RowActionMenu"
    ELSE "null"

\* Mutant of RowActions: the edit icon is created for every edit display mode.
RowActionsIconForAllModes(r) ==
    IF rowCfg.renderRowActions /\ ~ShowEditActionButtons(r)
    THEN "renderRowActions"
    ELSE IF ShowEditActionButtons(r)
    THEN "MRT_EditActionButtons"
    ELSE IF ~rowCfg.renderRowActionMenuItems /\ EnableEditing(r)
    THEN "EditIcon"
    ELSE IF rowCfg.renderRowActionMenuItems
    THEN "MRT_RowActionMenu"
    ELSE "null"

\* The JSX the component returns for row r, as the nested conditional of the
\* return statement chooses it.
RowActions(r) ==
    IF rowCfg.renderRowActions /\ ~ShowEditActionButtons(r)
    THEN "renderRowActions"
    ELSE IF ShowEditActionButtons(r)
    THEN "MRT_EditActionButtons"
    ELSE IF /\ ~rowCfg.renderRowActionMenuItems
            /\ EnableEditing(r)
            /\ rowCfg.editDisplayMode \in {"modal", "row"}
    THEN "EditIcon"
    ELSE IF rowCfg.renderRowActionMenuItems
    THEN "MRT_RowActionMenu"
    ELSE "null"

\* The last step: the handler, its row, what it did to the click event, and
\* the row that was the editing row before it.
RowDid(op, r, stop, prevent) ==
    [op |-> op, row |-> r, stopPropagation |-> stop, preventDefault |-> prevent,
     wasEditing |-> editingRow]

\* The options of a table that leaves the row action cells at their defaults.
DefaultRowConfig ==
    [createDisplayMode |-> "modal", editDisplayMode |-> "modal",
     enableEditing |-> {}, renderRowActionMenuItems |-> FALSE,
     renderRowActions |-> FALSE]

RowInit(configs) ==
    /\ rowCfg \in configs
    /\ creatingRow = NoRow
    /\ editingRow = NoRow
    /\ rowAnchorEl = [r \in Rows |-> FALSE]
    /\ rowLast =
         [op |-> "init", row |-> NoRow, stopPropagation |-> FALSE,
          preventDefault |-> FALSE, wasEditing |-> NoRow]

\* Mutant of HandleOpenRowActionMenu: the click keeps its default behaviour
\* and bubbles on to the row.
HandleOpenRowActionMenuBubbles(r) ==
    /\ RowActions(r) = "MRT_RowActionMenu"
    /\ ~rowAnchorEl[r]
    /\ rowAnchorEl' = [rowAnchorEl EXCEPT ![r] = TRUE]
    /\ rowLast' = RowDid("handleOpenRowActionMenu", r, FALSE, FALSE)
    /\ UNCHANGED filterVars
    /\ UNCHANGED <<rowCfg, creatingRow, editingRow>>

\* handleOpenRowActionMenu: onClick of the overflow button of row r.
HandleOpenRowActionMenu(r) ==
    /\ RowActions(r) = "MRT_RowActionMenu"
    /\ ~rowAnchorEl[r]
    /\ rowAnchorEl' = [rowAnchorEl EXCEPT ![r] = TRUE]
    /\ rowLast' = RowDid("handleOpenRowActionMenu", r, TRUE, TRUE)
    /\ UNCHANGED filterVars
    /\ UNCHANGED <<rowCfg, creatingRow, editingRow>>

\* Mutant of HandleStartEditMode: the anchor of the menu is set instead of
\* cleared.
HandleStartEditModeOpensMenu(r) ==
    /\ editingRow' = r
    /\ rowAnchorEl' = [rowAnchorEl EXCEPT ![r] = TRUE]
    /\ rowLast' = RowDid("handleStartEditMode", r, TRUE, FALSE)
    /\ UNCHANGED filterVars
    /\ UNCHANGED <<rowCfg, creatingRow>>

\* Mutant of HandleStartEditMode: the editing row is set only when no row is
\* being edited.
HandleStartEditModeIfNone(r) ==
    /\ editingRow' = (IF editingRow = NoRow THEN r ELSE editingRow)
    /\ rowAnchorEl' = [rowAnchorEl EXCEPT ![r] = FALSE]
    /\ rowLast' = RowDid("handleStartEditMode", r, TRUE, FALSE)
    /\ UNCHANGED filterVars
    /\ UNCHANGED <<rowCfg, creatingRow>>

\* handleStartEditMode: stopPropagation; setEditingRow({...row}); setAnchorEl(null)
HandleStartEditMode(r) ==
    /\ editingRow' = r
    /\ rowAnchorEl' = [rowAnchorEl EXCEPT ![r] = FALSE]
    /\ rowLast' = RowDid("handleStartEditMode", r, TRUE, FALSE)
    /\ UNCHANGED filterVars
    /\ UNCHANGED <<rowCfg, creatingRow>>

\* onClick={handleStartEditMode} of the edit icon button of row r.
ClickEditIcon(r) ==
    /\ RowActions(r) = "EditIcon"
    /\ HandleStartEditMode(r)

\* handleEdit={handleStartEditMode}: the edit item of the open menu of row r.
ClickMenuEdit(r) ==
    /\ RowActions(r) = "MRT_RowActionMenu"
    /\ rowAnchorEl[r]
    /\ HandleStartEditMode(r)

\* MRT_RowActionMenu closes itself: setAnchorEl(null).
CloseRowActionMenu(r) ==
    /\ RowActions(r) = "MRT_RowActionMenu"
    /\ rowAnchorEl[r]
    /\ rowAnchorEl' = [rowAnchorEl EXCEPT ![r] = FALSE]
    /\ rowLast' = RowDid("closeRowActionMenu", r, FALSE, FALSE)
    /\ UNCHANGED filterVars
    /\ UNCHANGED <<rowCfg, creatingRow, editingRow>>

\* The table's owner sets or clears the creating row (table.setCreatingRow).
SetCreatingRow(r) ==
    /\ creatingRow # r
    /\ creatingRow' = r
    /\ rowLast' = RowDid("setCreatingRow", r, FALSE, FALSE)
    /\ UNCHANGED filterVars
    /\ UNCHANGED <<rowCfg, editingRow, rowAnchorEl>>

\* Save or cancel of the editing row, outside this component: setEditingRow(null).
ClearEditingRow ==
    /\ editingRow # NoRow
    /\ editingRow' = NoRow
    /\ rowLast' = RowDid("clearEditingRow", NoRow, FALSE, FALSE)
    /\ UNCHANGED filterVars
    /\ UNCHANGED <<rowCfg, creatingRow, rowAnchorEl>>

RowNext ==
    \/ \E r \in Rows : HandleOpenRowActionMenu(r)
    \/ \E r \in Rows : ClickEditIcon(r)
    \/ \E r \in Rows : ClickMenuEdit(r)
    \/ \E r \in Rows : CloseRowActionMenu(r)
    \/ \E r \in Rows \cup {NoRow} : SetCreatingRow(r)
    \/ ClearEditingRow

----------------------------------------------------------------------------
(* Specifications *)

\* The filter input of a column, in every configuration; the row action
\* cells are at rest.
FilterSpecInit == FilterInit(Configs) /\ RowInit({DefaultRowConfig})

FilterSpec == FilterSpecInit /\ [][FilterNext]_vars

\* The row action cells, in every configuration; the filter input is at rest.
RowSpecInit == FilterInit({DefaultConfig}) /\ RowInit(RowConfigs)

RowSpec == RowSpecInit /\ [][RowNext]_vars

----------------------------------------------------------------------------
(* Claims about the debounced write *)

ImmediateCallbacks ==
    {"onColumnFilterValueChanged", "columnDef.onColumnFilterValueChanged"}

DebouncedCallbacks ==
    {"onColumnFilterValueChangedDebounced",
     "columnDef.onColumnFilterValueChangedDebounced"}

\* The debounced callback of input i ran in the last step.
Fired(i) == last.op = "handleChangeDebounced" /\ last.inputIndex = i

\* C1: a burst of N >= 1 onInput calls on an input, each made while the
\* timer of the previous one is pending, causes no write to the shared filter
\* value while the timer is pending and exactly one once it has fired; the
\* write is made when DebounceMs have passed since the last call and, no clear
\* having run on the input meanwhile, it stores the value of the last call;
\* each given immediate callback has been called N times.
C1_OneWritePerBurst ==
    \A i \in Inputs :
        LET b == burst[i]
        IN  /\ b.calls >= 1 => b.writes = (IF timeout[i].pending THEN 0 ELSE 1)
            /\ \A c \in ImmediateCallbacks :
                   b.count[c] = (IF c \in cfg.callbacks THEN b.calls ELSE 0)
            /\ Fired(i) =>
                   /\ b.idle >= DebounceMs
                   /\ ~b.cleared => SharedAt(i) = b.value

\* A burst of two calls has been written: the shared value is that of the
\* second call, and the immediate callbacks were called twice.
C1_Witness ==
    \E i \in Inputs :
        /\ Fired(i)
        /\ burst[i].calls = 2
        /\ burst[i].writes = 1
        /\ ~burst[i].cleared
        /\ SharedAt(i) = burst[i].value
        /\ \A c \in ImmediateCallbacks : burst[i].count[c] = 2

\* No timer is pending: the quiet period of every onInput call has passed.
Quiet == \A i \in Inputs : ~timeout[i].pending

\* C2: when the quiet period has passed, the local value of every mounted
\* input of the column equals the shared filter value at its key or
\* sub-index (unset read as the empty string).
C2_Reconverges ==
    Quiet => \A i \in Inputs : mounted[i] => filterValue[i] = SharedAt(i)

\* C3 as claimed: right after handleClear the local value is '' and the
\* shared filter value of the column is undefined.
C3_ClearUnsetsColumn ==
    last.op = "handleClear" =>
        /\ filterValue[last.inputIndex] = ""
        /\ GetFilterValue = Undefined

\* C3 as amended: right after handleClear the local value is ''; the shared
\* filter value of the column is undefined for a single input, and for a
\* min/max input it is a tuple whose element at the sub-index is undefined.
C3_ClearUnsetsKey ==
    last.op = "handleClear" =>
        LET i == last.inputIndex
        IN  /\ filterValue[i] = ""
            /\ i = NoIndex => GetFilterValue = Undefined
            /\ i # NoIndex =>
                   /\ GetFilterValue.isTuple
                   /\ GetFilterValue.t[i + 1] = UNDEFINED

\* The max input of a pair was cleared while the min side holds a value.
C3_Witness ==
    /\ last.op = "handleClear"
    /\ last.inputIndex = 1
    /\ GetFilterValue = Tuple("a", UNDEFINED)
    /\ filterValue[1] = ""

\* The other side of sub-index i.
Other(i) == 1 - i

\* The step is a run of the debounced callback of min/max input i.
FiresRange(i) ==
    /\ last'.op = "handleChangeDebounced"
    /\ last'.inputIndex = i

\* C4 as claimed: a debounced write to sub-index i leaves the other element
\* at its current value, and at the empty string when the tuple was unset
\* or that element was missing.
C4_OtherSideKeptOrEmpty ==
    [][\A i \in {0, 1} :
         FiresRange(i) =>
            LET old == columnFilters[Column]
                new == columnFilters'[Column]
            IN  /\ new.isTuple
                /\ new.t[Other(i) + 1] =
                     (IF old = Undefined \/ old.t[Other(i) + 1] = UNDEFINED
                      THEN "" ELSE old.t[Other(i) + 1])]_vars

\* C4 as amended: a debounced write to sub-index i leaves the other element
\* at its current value (an undefined element stays undefined), and at the
\* empty string when the whole value was unset; the value read at the other
\* sub-index is the same before and after.
C4_OtherSideKept ==
    [][\A i \in {0, 1} :
         FiresRange(i) =>
            LET old == columnFilters[Column]
                new == columnFilters'[Column]
            IN  /\ new.isTuple
                /\ new.t[Other(i) + 1] =
                     (IF old = Undefined THEN "" ELSE old.t[Other(i) + 1])
                /\ InitialFilterValue(new, Other(i)) = InitialFilterValue(old, Other(i))]_vars

\* The min side was written while the max side holds "b".
C4_Witness ==
    /\ Fired(0)
    /\ GetFilterValue = Tuple("a", "b")
    /\ burst[1].writes = 1

----------------------------------------------------------------------------
(* Claims about the row action cell *)

\* The decision list of the row action cell, first match wins: each rule is
\* a condition on row r and the outcome it selects.
DecisionRules(r) ==
    LET inline ==
            \/ creatingRow = r /\ rowCfg.createDisplayMode = "row"
            \/ editingRow = r /\ rowCfg.editDisplayMode = "row"
    IN  << [when |-> rowCfg.renderRowActions /\ ~inline,
            then |-> "renderRowActions"],
           [when |-> inline, then |-> "MRT_EditActionButtons"],
           [when |-> /\ ~rowCfg.renderRowActionMenuItems
                     /\ r \in rowCfg.enableEditing
                     /\ rowCfg.editDisplayMode \in {"modal", "row"},
            then |-> "EditIcon"],
           [when |-> rowCfg.renderRowActionMenuItems, then |-> "MRT_RowActionMenu"],
           [when |-> TRUE, then |-> "null"] >>

FirstMatch(rules) ==
    LET k == CHOOSE n \in 1..Len(rules) :
                 rules[n].when /\ \A m \in 1..(n - 1) : ~rules[m].when
    IN  rules[k].then

\* C5: for every row, the cell renders the outcome of the first rule of the
\* five-rule decision list that matches.
C5_RenderIsFirstMatch ==
    \A r \in Rows : RowActions(r) = FirstMatch(DecisionRules(r))

\* A custom action renderer is configured: the creating row of an inline
\* create shows the edit buttons by rule 2, another row the custom renderer.
C5_Witness ==
    /\ rowCfg.renderRowActions
    /\ rowCfg.createDisplayMode = "row"
    /\ creatingRow = "r1"
    /\ RowActions("r1") = "MRT_EditActionButtons"
    /\ RowActions("r2") = "renderRowActions"
    /\ rowLast.op = "setCreatingRow"

\* C6: at most one row is the editing row; right after edit-start on a row,
\* that row is editing and no other row is.
C6_OneEditingRow ==
    /\ Cardinality({r \in Rows : IsEditing(r)}) <= 1
    /\ rowLast.op = "handleStartEditMode" =>
           \A r \in Rows : IsEditing(r) <=> r = rowLast.row

\* Edit was started on r2 while r1 was the editing row.
C6_Witness ==
    /\ rowLast.op = "handleStartEditMode"
    /\ rowLast.row = "r2"
    /\ rowLast.wasEditing = "r1"
    /\ IsEditing("r2")
    /\ ~IsEditing("r1")

\* C10: with createDisplayMode 'row', the creating row renders the inline
\* edit action buttons, whatever renderers are configured and whatever the
\* edit display mode.
C10_CreatingRowShowsEditButtons ==
    \A r \in Rows :
        rowCfg.createDisplayMode = "row" /\ creatingRow = r =>
            RowActions(r) = "MRT_EditActionButtons"

\* The creating row of a table with both custom renderers and modal editing.
C10_Witness ==
    /\ rowCfg.createDisplayMode = "row"
    /\ rowCfg.editDisplayMode = "modal"
    /\ rowCfg.renderRowActions
    /\ rowCfg.renderRowActionMenuItems
    /\ creatingRow = "r2"
    /\ rowLast.op = "setCreatingRow"
    /\ RowActions("r2") = "MRT_EditActionButtons"

\* Row r has editing enabled, edit display mode 'modal', and no custom
\* renderer of row actions or of menu items.
PlainModalEditing(r) ==
    /\ ~rowCfg.renderRowActions
    /\ ~rowCfg.renderRowActionMenuItems
    /\ EnableEditing(r)
    /\ rowCfg.editDisplayMode = "modal"

\* Row r is the creating row of an inline ('row') create.
InlineCreating(r) == IsCreating(r) /\ rowCfg.createDisplayMode = "row"

\* After a click on the edit icon of a row, that row is the editing row and
\* the anchor of its menu is null.
EditIconClickStartsEdit ==
    \A r \in Rows :
        PlainModalEditing(r) =>
            /\ ~rowAnchorEl[r]
            /\ rowLast.op = "handleStartEditMode" /\ rowLast.row = r =>
                   IsEditing(r)

\* C11 as claimed: every row with editing enabled, edit display mode 'modal'
\* and no custom renderer shows the edit icon; a click on it makes the row
\* the editing row and leaves the anchor of the menu null.
C11_EditIconRendered ==
    /\ \A r \in Rows : PlainModalEditing(r) => RowActions(r) = "EditIcon"
    /\ EditIconClickStartsEdit

\* C11 as amended: such a row shows the edit icon unless it is the creating
\* row of an inline ('row') create, which shows the edit action buttons; a
\* click on the icon makes the row the editing row and leaves the anchor of
\* the menu null, and the anchor of such a row is never set.
C11_EditIconUnlessInlineCreating ==
    /\ \A r \in Rows :
           PlainModalEditing(r) =>
               RowActions(r) =
                   (IF InlineCreating(r) THEN "MRT_EditActionButtons" ELSE "EditIcon")
    /\ EditIconClickStartsEdit

\* The edit icon of r1 was clicked while r2 was the editing row.
C11_Witness ==
    /\ PlainModalEditing("r1")
    /\ rowLast.op = "handleStartEditMode"
    /\ rowLast.row = "r1"
    /\ rowLast.wasEditing = "r2"
    /\ RowActions("r1") = "EditIcon"
    /\ IsEditing("r1")
    /\ ~rowAnchorEl["r1"]

\* C12: right after handleOpenRowActionMenu the click has had its default
\* prevented and its propagation stopped (it reaches no handler of the row)
\* and the menu of the row is open; right after handleStartEditMode the
\* propagation of the click is stopped, the row is the editing row and the
\* anchor of its menu is null.
C12_ClicksStoppedMenuClosed ==
    /\ rowLast.op = "handleOpenRowActionMenu" =>
           /\ rowLast.stopPropagation
           /\ rowLast.preventDefault
           /\ rowAnchorEl[rowLast.row]
    /\ rowLast.op = "handleStartEditMode" =>
           /\ rowLast.stopPropagation
           /\ IsEditing(rowLast.row)
           /\ ~rowAnchorEl[rowLast.row]

\* Edit was started from the open menu of r2 (with a menu-items renderer the
\* edit icon is not rendered, so the click was on the menu's edit item).
C12_Witness ==
    /\ rowCfg.renderRowActionMenuItems
    /\ rowLast.op = "handleStartEditMode"
    /\ rowLast.row = "r2"
    /\ rowLast.stopPropagation
    /\ IsEditing("r2")
    /\ ~rowAnchorEl["r2"]
    /\ rowAnchorEl["r1"]

\* Row r has editing enabled, no custom renderer of row actions, and an
\* edit display mode other than 'modal' and 'row'.
OtherModeEditing(r) ==
    /\ ~rowCfg.renderRowActions
    /\ EnableEditing(r)
    /\ rowCfg.editDisplayMode \in EditDisplayModes \ {"modal", "row"}

\* The edit icon is rendered only in the edit display modes 'modal' and 'row'.
EditIconOnlyModalOrRow ==
    \A r \in Rows :
        RowActions(r) = "EditIcon" => rowCfg.editDisplayMode \in {"modal", "row"}

\* C15 as claimed: the edit icon is rendered only in the edit display modes
\* 'modal' and 'row'; in every other mode a row with editing enabled and no
\* custom renderer of row actions renders nothing without a menu-items
\* renderer and the overflow menu with one.
C15_NoIconInOtherModes ==
    /\ EditIconOnlyModalOrRow
    /\ \A r \in Rows :
           OtherModeEditing(r) =>
               RowActions(r) =
                   (IF rowCfg.renderRowActionMenuItems
                    THEN "MRT_RowActionMenu" ELSE "null")

\* C15 as amended: the same, except that the creating row of an inline
\* ('row') create renders the edit action buttons.
C15_NoIconInOtherModesUnlessInlineCreating ==
    /\ EditIconOnlyModalOrRow
    /\ \A r \in Rows :
           OtherModeEditing(r) =>
               RowActions(r) =
                   (IF InlineCreating(r)
                    THEN "MRT_EditActionButtons"
                    ELSE IF rowCfg.renderRowActionMenuItems
                    THEN "MRT_RowActionMenu" ELSE "null")

\* In edit display mode 'cell', edit was started on r1 from its overflow menu:
\* the row is the editing row and still renders the overflow menu, no icon.
C15_Witness ==
    /\ OtherModeEditing("r1")
    /\ rowCfg.editDisplayMode = "cell"
    /\ rowCfg.renderRowActionMenuItems
    /\ rowLast.op = "handleStartEditMode"
    /\ IsEditing("r1")
    /\ RowActions("r1") = "MRT_RowActionMenu"

----------------------------------------------------------------------------
(* Claims about the predicate chip *)

NoOperandPredicates == {"empty", "notEmpty"}

\* The inputs the header shows.
Shown(i) == i \in Inputs /\ mounted[i] /\ ~cfg.Filter

\* C7 as claimed: while the predicate of the column takes no operand, every
\* input the header shows is disabled and shows the removable chip.
C7_DisabledWithChip ==
    FilterFn \in NoOperandPredicates =>
        \A i \in AllInputs : Shown(i) => InputDisabled /\ ChipShown(i)

\* C7 as amended: while the predicate of the column takes no operand, every
\* input the header shows is disabled exactly when the localization has a
\* label for the predicate; the chip is shown exactly on the labelled inputs
\* that are no select, are the single input or sub-index 0, and whose list
\* of enabled predicates is absent or non-empty.
C7_DisabledChipOnMenuInput ==
    FilterFn \in NoOperandPredicates =>
        \A i \in AllInputs :
            Shown(i) =>
                LET labelled ==
                        (IF FilterFn = "empty" THEN "filterEmpty" ELSE "filterNotEmpty")
                            \in cfg.localization
                    list ==
                        IF cfg.columnOptions.defined
                        THEN cfg.columnOptions ELSE cfg.tableOptions
                IN  /\ InputDisabled <=> labelled
                    /\ ChipShown(i) <=>
                           /\ labelled
                           /\ ~cfg.filterSelectOptions
                           /\ i \in {NoIndex, 0}
                           /\ ~list.defined \/ list.options # {}

\* A min/max pair with predicate "empty" whose max input has written a typed
\* value: both inputs are disabled, the chip is on the min input only.
C7_Witness ==
    /\ cfg.isRange
    /\ FilterFn = "empty"
    /\ mounted[0] /\ mounted[1]
    /\ burst[1].writes = 1
    /\ InputDisabled
    /\ ChipShown(0)
    /\ ~ChipShown(1)

\* C8: right after handleClearFilterChip the local value of its input is '',
\* the shared filter value of the column is undefined and its predicate is
\* "fuzzy"; the inputs are enabled and no chip is shown.
C8_ChipClearResets ==
    last.op = "handleClearFilterChip" =>
        /\ filterValue[last.inputIndex] = ""
        /\ GetFilterValue = Undefined
        /\ FilterFn = "fuzzy"
        /\ ~InputDisabled
        /\ \A i \in Inputs : ~ChipShown(i)

\* The chip was removed from an input whose typed value had been written.
C8_Witness ==
    /\ last.op = "handleClearFilterChip"
    /\ burst[last.inputIndex].writes = 1
    /\ burst[last.inputIndex].value \in Values
    /\ GetFilterValue = Undefined

\* C9: the debounced callback of an input never runs once the input is
\* unmounted (a write pending at unmount is dropped).
C9_UnmountDropsWrite == \A i \in Inputs : Fired(i) => mounted[i]

----------------------------------------------------------------------------
(* Claims about notifications, missing configuration and interleavings *)

\* The callbacks a handler called in the last step, in order.
NotifiedCallbacks == [n \in 1..Len(last.notified) |-> last.notified[n].callback]

\* The event of the last onInput call of the burst of input i.
LastEvent(i) == [n |-> burst[i].calls, value |-> burst[i].value]

\* C13: the debounced callbacks of an input are not called while its timer
\* is pending; when the timer fires, DebounceMs have passed since the last
\* onInput call, each given debounced callback (of the table, then of the
\* column) is called once, with the column, the event of the last onInput
\* call and, no clear having run on the input meanwhile, the value that the
\* immediate callbacks of that call were given.
C13_DebouncedAfterQuiet ==
    \A i \in Inputs :
        LET b == burst[i]
        IN  /\ \A c \in DebouncedCallbacks :
                   b.count[c] =
                       (IF c \in cfg.callbacks /\ b.calls >= 1 /\ ~timeout[i].pending
                        THEN 1 ELSE 0)
            /\ Fired(i) =>
                   /\ b.idle >= DebounceMs
                   /\ NotifiedCallbacks =
                          SelectSeq(<<"onColumnFilterValueChangedDebounced",
                                      "columnDef.onColumnFilterValueChangedDebounced">>,
                                    LAMBDA c : c \in cfg.callbacks)
                   /\ \A n \in 1..Len(last.notified) :
                          LET p == last.notified[n].payload
                          IN  /\ p.column = Column
                              /\ p.event = LastEvent(i)
                              /\ ~b.cleared => p = Payload(LastEvent(i), b.value)

\* The timer of a burst of two calls fired: both debounced callbacks were
\* called with the payload of the second call.
C13_Witness ==
    \E i \in Inputs :
        /\ Fired(i)
        /\ burst[i].calls = 2
        /\ burst[i].idle = DebounceMs
        /\ Len(last.notified) = 2
        /\ \A n \in 1..2 :
               last.notified[n].payload = Payload(LastEvent(i), burst[i].value)

\* C14: when the column gives a custom Filter component, no step writes the
\* shared filter value, changes the predicate selection, opens the
\* predicate menu, starts a timer or calls a notification callback.
C14_CustomFilterDefers ==
    [][cfg.Filter =>
         /\ UNCHANGED <<columnFilters, currentFilterFns, filterAnchorEl, filterValue>>
         /\ \A i \in Inputs : ~timeout'[i].pending
         /\ last'.notified = <<>>
         /\ last'.op = "none"]_vars

\* The header of a column with a custom Filter component was unmounted; the
\* shared state is as it was at the start.
C14_Witness ==
    /\ cfg.Filter
    /\ last.op = "none"
    /\ ~mounted[NoIndex]
    /\ GetFilterValue = Str("a")
    /\ FilterFn = "empty"

\* C16: no render of a mounted input throws, whatever optional configuration
\* is missing.
C16_NeverThrows == \A i \in Inputs : mounted[i] => ~RenderThrows(i)

\* C17: the write of a min/max input is computed from the shared value
\* current when it applies: when the timers of both inputs were pending and
\* the one of the other input has just fired, the write of input i leaves
\* the value of the other side in place, so that the tuple holds both
\* written values; the clear of one side likewise keeps the other side.
C17_NoLostUpdate ==
    [][\A i \in {0, 1} :
         LET j == Other(i)
             new == columnFilters'[Column]
         IN  /\ (cfg.isRange /\ Fired(j) /\ timeout[i].pending /\ FiresRange(i)) =>
                    /\ new.isTuple
                    /\ InitialFilterValue(new, j) = SharedAt(j)
                    /\ ~burst[j].cleared => InitialFilterValue(new, j) = burst[j].value
                    /\ ~burst[i].cleared => InitialFilterValue(new, i) = burst[i].value
             /\ (last'.op = "handleClear" /\ last'.inputIndex = i) =>
                    InitialFilterValue(new, j) = SharedAt(j)]_vars

\* Both sides were typed in while the shared value was unset, and the timer
\* of the max input fired after the one of the min input.
C17_Witness ==
    /\ Fired(1)
    /\ burst[0].writes = 1 /\ burst[0].value = "a" /\ ~burst[0].cleared
    /\ burst[1].writes = 1 /\ burst[1].value = "b" /\ ~burst[1].cleared
    /\ burst[0].idle = DebounceMs
    /\ GetFilterValue = Tuple("a", "b")

\* C18: once the timer of an input on which a clear ran while a write was
\* pending is no longer pending, the shared filter value at its key or
\* sub-index reads as unset, and no debounced callback was called with the
\* value typed before the clear.
C18_ClearedStaysUnset ==
    \A i \in Inputs :
        burst[i].cleared /\ ~timeout[i].pending =>
            /\ SharedAt(i) = ""
            /\ Fired(i) =>
                   \A n \in 1..Len(last.notified) :
                       last.notified[n].payload.filterValue # burst[i].value

\* The steps of onInput and onClear: handleChange, its debounced callback,
\* and handleClear.
InputOrClear == {"handleChange", "handleChangeDebounced", "handleClear"}

\* C19: handleClearFilterChip leaves the predicate selection and the shared
\* filter value of every other column as they are; handleChange, its
\* debounced callback and handleClear leave the predicate selection of every
\* column as it is, and the filter value of every other column.
C19_OtherColumnsKept ==
    [][/\ last'.op = "handleClearFilterChip" =>
             \A c \in Columns \ {Column} :
                 /\ currentFilterFns'[c] = currentFilterFns[c]
                 /\ columnFilters'[c] = columnFilters[c]
       /\ last'.op \in InputOrClear =>
             /\ currentFilterFns' = currentFilterFns
             /\ \A c \in Columns \ {Column} : columnFilters'[c] = columnFilters[c]]_vars

\* The chip of the column was removed: the other column still has its
\* predicate and its filter value.
C19_Witness ==
    /\ last.op = "handleClearFilterChip"
    /\ FilterFn = "fuzzy"
    /\ currentFilterFns[OtherColumn] = "notEmpty"
    /\ columnFilters[OtherColumn] = Str("b")

====
